---- MODULE Spec2Model ----
(***************************************************************************)
(* Episode identity and state tracking of the podcast toolkit:             *)
(*   lib/generators/id.py   PodcastID, IDGenerator                         *)
(*   lib/models/podcast.py  PodcastList, save_state                        *)
(*   lib/commands.py        add-podcast, process-podcast, cleanup-podcast  *)
(*   podcast_list.py        the earlier PodcastList                        *)
(*   main.py                the platform-scoped state tracker              *)
(*                                                                         *)
(* Strings that take part in ID formatting are sequences of one-character  *)
(* strings, so that two names that differ as raw strings can still format  *)
(* to the same ID.  The platform is one token of such a sequence.          *)
(*                                                                         *)
(* Every CLI command is one action; the ways a command can end (fetch      *)
(* error, transcript error, interrupted write, ...) are inputs of the      *)
(* action.  An interrupted write of podcasts.json ends the command.        *)
(***************************************************************************)
EXTENDS Integers, Sequences, FiniteSets, TLC

VARIABLES
    dbFile,      \* podcasts.json: [kind, data]
    stateFile,   \* .current_episode.json: [exists, episode_id, status, error]
    files,       \* the generated artifacts that exist on disk (set of paths)
    id_cache,    \* IDGenerator.id_cache of one long-lived generator
    issued,      \* per grouping key, the counters of the IDs that generator returned
    returned,    \* the ID that generator returned last
    trackerFiles, \* main.py: the state file of each platform, [exists, state]
    lastSaved,   \* main.py: what the most recent save_state call wrote
    database,    \* main.py: podcast_data.json, the list of episode records
    input,       \* the argument a pure function is applied to
    output,      \* what it returned
    invocations  \* the add-podcast processes that run side by side: what each holds

mainVars == <<trackerFiles, lastSaved, database>>
fnVars == <<input, output>>
vars == <<dbFile, stateFile, files, id_cache, issued, returned, mainVars, fnVars, invocations>>

\* ------------------------------------------------------------------ bounds
MaxCount == 3        \* highest counter one long-lived generator issues
MaxStoreCount == 1   \* highest counter the commands get issued for an entry
MaxDirectCount == 2  \* highest counter issued under direct calls of the store
MaxEntries == 4      \* most entries a store holds under direct calls
MaxUpdated == 2      \* most entries of a store whose entries are updated
MaxLen == 3          \* longest name _sanitize_name is applied to
MaxStored == 2       \* most entries of a store the cache is rebuilt from
MaxReissued == 2     \* highest counter issued while entries are added and cleaned up
MaxPrinted == 3      \* most episode IDs add-podcast prints in one run of the commands

\* ------------------------------------------------------------ characters
UpperSeq == <<"A", "B", "C", "D", "E", "F", "G", "H", "I", "J", "K", "L", "M",
              "N", "O", "P", "Q", "R", "S", "T", "U", "V", "W", "X", "Y", "Z">>
LowerSeq == <<"a", "b", "c", "d", "e", "f", "g", "h", "i", "j", "k", "l", "m",
              "n", "o", "p", "q", "r", "s", "t", "u", "v", "w", "x", "y", "z">>
DigitSeq == <<"0", "1", "2", "3", "4", "5", "6", "7", "8", "9">>

Range(s) == {s[i] : i \in DOMAIN s}

\* regex class \w (ASCII part), \s and the hyphen
WordChars == Range(UpperSeq) \cup Range(LowerSeq) \cup Range(DigitSeq) \cup {"_"}
SpaceChars == {" ", "\t", "\n"}
KeptChars == WordChars \cup SpaceChars \cup {"-"}

\* str.lower() on one character
LowerChar(c) ==
    IF c \in Range(UpperSeq)
    THEN LowerSeq[CHOOSE i \in DOMAIN UpperSeq : UpperSeq[i] = c]
    ELSE c

Lower(s) == [i \in DOMAIN s |-> LowerChar(s[i])]

\* re.sub(r'[^\w\s-]', '', s)
RECURSIVE StripSpecial(_)
StripSpecial(s) ==
    IF s = <<>> THEN <<>>
    ELSE IF Head(s) \in KeptChars THEN <<Head(s)>> \o StripSpecial(Tail(s))
    ELSE StripSpecial(Tail(s))

\* s.replace(' ', '_')
ReplaceSpaces(s) == [i \in DOMAIN s |-> IF s[i] = " " THEN "_" ELSE s[i]]

\* re.sub(r'_+', '_', s)
RECURSIVE CollapseUnderscores(_)
CollapseUnderscores(s) ==
    IF Len(s) < 2 THEN s
    ELSE IF s[1] = "_" /\ s[2] = "_" THEN CollapseUnderscores(Tail(s))
    ELSE <<Head(s)>> \o CollapseUnderscores(Tail(s))

\* a sanitizer that collapses the underscores before it replaces the spaces
SanitizeCollapsesFirst(name) == ReplaceSpaces(CollapseUnderscores(StripSpecial(Lower(name))))

\* PodcastID._sanitize_name
SanitizeName(name) == CollapseUnderscores(ReplaceSpaces(StripSpecial(Lower(name))))

\* f"{n:02d}": at least two digits, zero padded
RECURSIVE Digits(_)
Digits(n) == IF n < 10 THEN <<DigitSeq[n + 1]>>
             ELSE Digits(n \div 10) \o <<DigitSeq[(n % 10) + 1]>>

Fmt02d(n) == IF n < 10 THEN <<"0">> \o Digits(n) ELSE Digits(n)

\* int(s) of a digit string
RECURSIVE ToInt(_)
ToInt(s) ==
    IF s = <<>> THEN 0
    ELSE 10 * ToInt(SubSeq(s, 1, Len(s) - 1))
         + (CHOOSE d \in 0..9 : DigitSeq[d + 1] = s[Len(s)])

\* s.split('_')[-1]
RECURSIVE LastSegment(_)
LastSegment(s) ==
    IF s = <<>> THEN <<>>
    ELSE IF s[Len(s)] = "_" THEN <<>>
    ELSE LastSegment(SubSeq(s, 1, Len(s) - 1)) \o <<s[Len(s)]>>

\* date.strftime('%y_%m_%d')
DateStr(date) ==
    Fmt02d(date.year % 100) \o <<"_">> \o Fmt02d(date.month) \o <<"_">> \o Fmt02d(date.day)

\* PodcastID.__init__ followed by PodcastID.base_id
BaseId(date, podcast_name, interviewee_name, platform, count) ==
    DateStr(date) \o <<"_">> \o SanitizeName(podcast_name) \o <<"_">>
        \o SanitizeName(interviewee_name) \o <<"_", platform, "_">> \o Fmt02d(count)

\* ------------------------------------------------------------ ID generator
\* the grouping key of IDGenerator: f"{podcast_name}_{interviewee_name}", raw
GroupKey(podcast_name, interviewee_name) == podcast_name \o <<"_">> \o interviewee_name

\* a dict.get whose default is 1
CacheGetDefaultsToOne(cache, key) == IF key \in DOMAIN cache THEN cache[key] ELSE 1

\* dict.get(key, 0)
CacheGet(cache, key) == IF key \in DOMAIN cache THEN cache[key] ELSE 0

\* cache[key] = count
CachePut(cache, key, count) ==
    [k \in DOMAIN cache \cup {key} |-> IF k = key THEN count ELSE cache[k]]

EmptyCache == [k \in {} |-> 0]

Max(a, b) == IF a >= b THEN a ELSE b

\* the counter read back from a stored episode_id
StoredCount(episode_id) == ToInt(LastSegment(episode_id))

\* IDGenerator._load_cache over the entries of podcasts.json
RECURSIVE LoadCacheFrom(_, _)
LoadCacheFrom(data, cache) ==
    IF data = <<>> THEN cache
    ELSE LET entry == Head(data)
             key == GroupKey(entry.podcast_name, entry.interviewee.name)
             count == StoredCount(entry.episode_id)
         IN LoadCacheFrom(Tail(data), CachePut(cache, key, Max(CacheGet(cache, key), count)))

\* a generator whose counters default to 1 instead of 0
NextCountFromOne(cache, key) == (IF key \in DOMAIN cache THEN cache[key] ELSE 1) + 1

\* IDGenerator.generate_id: the counter it hands out
NextCount(cache, key) == CacheGet(cache, key) + 1

\* ---------------------------------------------------------- the inputs
Platforms == {"youtube", "vimeo"}

NoDate == [year |-> 0, month |-> 0, day |-> 0]   \* published_at missing or unparseable
NoId == <<>>                                     \* existing_id=None
NoPath == [dir |-> "", name |-> <<>>]            \* the empty string of a file field

DannyJones == <<"D", "a", "n", "n", "y", " ", "J", "o", "n", "e", "s">>
JackKruse == <<"J", "a", "c", "k", " ", "K", "r", "u", "s", "e">>
Sep24 == [year |-> 2024, month |-> 9, day |-> 24]
Oct01 == [year |-> 2024, month |-> 10, day |-> 1]

\* what the platform returns for each URL the commands are run with; the
\* podcast names of u1 and u2 differ only in case
URLs == {"u1", "u2", "u3"}

PlatformOf(url) == "vimeo"

MetadataOf(url) ==
    [published_at |-> Sep24,
     podcast_name |-> IF url = "u2" THEN <<"d", "j">> ELSE <<"D", "j">>,
     interviewee |-> [name |-> <<"K">>]]

\* an episode_id no entry has
UnknownId == <<"x">>

\* ------------------------------------------------------------ entry store
\* Config.get_transcript_path / process_vimeo_transcript
TranscriptPath(episode_id) == [dir |-> "Transcripts", name |-> episode_id]

\* MarkdownGenerator.generate_episode_markdown: EPISODES_DIR / f"{episode_id}.md"
EpisodePath(episode_id) == [dir |-> "Episodes", name |-> episode_id]

\* the attributes of PodcastEntry (title, webvtt_link, process_command and the
\* interviewee's profession and organization are descriptive and left out)
EntryFields == {"url", "platform", "podcast_name", "interviewee", "episode_id", "date",
                "status", "episodes_file", "claims_file", "transcripts_file",
                "added_at", "updated_at"}

\* datetime.utcnow() as the commands see it: they run within one tick
Now == 0

\* a load that keeps going on a file it cannot parse
LoadFailsNever(file) == FALSE

\* PodcastList._load: json.load raises on a file that holds only a prefix of
\* what _save was writing
LoadFails(file) == file.kind = "partial"

\* PodcastList._load: the entries it sets; an absent file gives none
LoadEntries(file) == IF file.kind = "json" THEN file.data ELSE <<>>

\* PodcastList._save: open(file_path, 'w') truncates the file, json.dump then
\* writes it piece by piece; a write that does not complete leaves a prefix
Save(entries, completed) ==
    IF completed THEN [kind |-> "json", data |-> entries]
    ELSE [kind |-> "partial", data |-> <<>>]

\* next((entry for entry in entries if entry.url == url), None), as an index
RECURSIVE IndexOfUrl(_, _)
IndexOfUrl(entries, url) ==
    IF entries = <<>> THEN 0
    ELSE IF Head(entries).url = url THEN 1
    ELSE LET rest == IndexOfUrl(Tail(entries), url)
         IN IF rest = 0 THEN 0 ELSE rest + 1

\* PodcastList.get_entry, as an index (0 is None)
RECURSIVE IndexOfId(_, _)
IndexOfId(entries, episode_id) ==
    IF entries = <<>> THEN 0
    ELSE IF Head(entries).episode_id = episode_id THEN 1
    ELSE LET rest == IndexOfId(Tail(entries), episode_id)
         IN IF rest = 0 THEN 0 ELSE rest + 1

\* an overwrite that forgets to drop the entry it replaces
RemoveEntryKeepsIt(entries, entry) == entries

\* list.remove(entry): drops the first element equal to entry
RECURSIVE RemoveEntry(_, _)
RemoveEntry(entries, entry) ==
    IF entries = <<>> THEN <<>>
    ELSE IF Head(entries) = entry THEN Tail(entries)
    ELSE <<Head(entries)>> \o RemoveEntry(Tail(entries), entry)

\* the episode_id PodcastList.add_entry gives the new entry: existing_id when
\* one is passed, otherwise a fresh IDGenerator() (cache rebuilt from the
\* file) issues one
NewEpisodeId(file, platform, metadata, existing_id) ==
    IF existing_id # NoId THEN existing_id
    ELSE LET cache == LoadCacheFrom(LoadEntries(file), EmptyCache)
             key == GroupKey(metadata.podcast_name, metadata.interviewee.name)
         IN BaseId(metadata.published_at, metadata.podcast_name,
                   metadata.interviewee.name, platform, NextCount(cache, key))

\* PodcastList.add_entry for metadata with a valid published_at: the list
\* after the append
AddEntry(entries, file, url, platform, metadata, existing_id, current_time) ==
    Append(entries,
           [url |-> url,
            platform |-> platform,
            podcast_name |-> metadata.podcast_name,
            interviewee |-> metadata.interviewee,
            episode_id |-> NewEpisodeId(file, platform, metadata, existing_id),
            date |-> metadata.published_at,
            status |-> "pending",
            episodes_file |-> NoPath,
            claims_file |-> NoPath,
            transcripts_file |-> NoPath,
            added_at |-> current_time,
            updated_at |-> current_time])

\* the loop of PodcastList.update_entry over kwargs (a function from names to
\* values): setattr for the names that are attributes of the entry
SetFields(entry, kwargs) ==
    [f \in DOMAIN entry |-> IF f \in DOMAIN kwargs /\ f \in EntryFields
                            THEN kwargs[f] ELSE entry[f]]

\* PodcastList.update_entry on an episode_id that is present: the first entry
\* with that ID gets the fields, then update_timestamp()
UpdateFields(entries, episode_id, kwargs, current_time) ==
    LET i == IndexOfId(entries, episode_id)
    IN [entries EXCEPT ![i] = [SetFields(@, kwargs) EXCEPT !.updated_at = current_time]]

\* an update that also empties transcripts_file when it is not the field named
UpdateEntryClearsTranscript(entries, episode_id, key, value) ==
    UpdateFields(entries, episode_id,
                 [k \in {key, "transcripts_file"} |-> IF k = key THEN value ELSE NoPath], Now)

\* update_entry(episode_id, key=value)
UpdateEntry(entries, episode_id, key, value) ==
    UpdateFields(entries, episode_id, [k \in {key} |-> value], Now)

\* ---------------------------------------------------------- state tracker
\* main.py: a dict without keys, get_state() of an absent file (a key that is
\* missing reads as the empty value), and a state file that is absent
NoMetadata == [k \in {} |-> ""]
EmptyState == [episode_id |-> "", transcript_file |-> "", metadata |-> NoMetadata]
NoStateFile == [exists |-> FALSE, state |-> EmptyState]

NoState == [exists |-> FALSE, episode_id |-> NoId, status |-> "", error |-> ""]

\* a save_state that updates the file in place, keeping keys it is not given
SavedStateKeepsError(episode_id, status, error) ==
    [exists |-> TRUE, episode_id |-> episode_id, status |-> status,
     error |-> IF error = "" THEN stateFile.error ELSE error]

\* save_state(episode_id, status, error=...): the file is rewritten whole; an
\* empty error stands for a state without that key
SavedState(episode_id, status, error) ==
    [exists |-> TRUE, episode_id |-> episode_id, status |-> status, error |-> error]

\* the CLI processes that can run at the same time, and one that has not
\* been started
Procs == {1, 2}
NotStarted ==
    [pc |-> "idle", url |-> "", entries |-> <<>>, existing_id |-> NoId,
     overlapped |-> FALSE, closed |-> 0, reported |-> NoId]

\* --------------------------------------------------------------- commands
\* no file exists yet and no generator has been used
InitFiles ==
    /\ dbFile = [kind |-> "absent", data |-> <<>>]
    /\ stateFile = NoState
    /\ files = {}
    /\ id_cache = EmptyCache
    /\ issued = EmptyCache
    /\ returned = NoId
    /\ trackerFiles = [youtube |-> NoStateFile, vimeo |-> NoStateFile]
    /\ lastSaved = NoStateFile
    /\ database = <<>>
    /\ invocations = [p \in Procs |-> NotStarted]

Init ==
    /\ InitFiles
    /\ input = <<>>
    /\ output = <<>>

\* cmd_add_podcast(url, platform).  answer: the reply to the overwrite
\* prompt; fetched: whether the metadata fetch returned; metadata: what it
\* returned; saved: whether the write of podcasts.json completed
cmd_add_podcast(url, platform, answer, fetched, metadata, saved) ==
    /\ UNCHANGED <<stateFile, files, id_cache, issued, returned, mainVars, fnVars, invocations>>
    /\ IF LoadFails(dbFile)
       THEN UNCHANGED dbFile                  \* PodcastList() fails in json.load
       ELSE LET entries == LoadEntries(dbFile)
                found == IndexOfUrl(entries, url)
                existing_id == IF found = 0 THEN NoId ELSE entries[found].episode_id
                kept == IF found = 0 THEN entries ELSE RemoveEntry(entries, entries[found])
            IN IF found # 0 /\ answer # "y"
               THEN UNCHANGED dbFile          \* "Operation cancelled."
               ELSE IF ~fetched
               THEN UNCHANGED dbFile          \* the fetcher raises
               ELSE IF metadata.published_at = NoDate
               THEN UNCHANGED dbFile          \* add_entry raises ValueError
               ELSE dbFile' = Save(AddEntry(kept, dbFile, url, platform, metadata, existing_id, Now), saved)

\* str(e) of the exception a failing step raises
TranscriptError == "transcript_error"
MarkdownError == "markdown_error"

\* whether the transcript step of cmd_process_podcast can return: the
\* YouTubeFetcher of lib/fetch/youtube.py has no get_transcript method
TranscriptAvailable(platform) == platform # "youtube"

\* an except branch that leaves the entry as it was
RecordErrorSkipsEntry(entries, episode_id, message, saved) ==
    [state |-> SavedState(episode_id, "error", message),
     db |-> Save(entries, saved)]

\* the except branch of cmd_process_podcast: save_state(error), then
\* update_entry(status="error"), as [state, db]
RecordError(entries, episode_id, message, saved) ==
    [state |-> SavedState(episode_id, "error", message),
     db |-> Save(UpdateEntry(entries, episode_id, "status", "error"), saved)]

\* cmd_process_podcast(episode_id).  transcribed / rendered: whether the
\* transcript and the markdown step return; interrupted: which _save call of
\* the run does not complete (0: none).  A step that does not return is
\* taken to fail before it writes its file; Config.ensure_dirs() only creates
\* directories and changes nothing here.
cmd_process_podcast(episode_id, transcribed, rendered, interrupted) ==
    /\ UNCHANGED <<id_cache, issued, returned, mainVars, fnVars, invocations>>
    /\ IF LoadFails(dbFile)
       THEN UNCHANGED <<dbFile, stateFile, files>>
       ELSE IF IndexOfId(LoadEntries(dbFile), episode_id) = 0
       THEN UNCHANGED <<dbFile, stateFile, files>>    \* "Episode ... not found"
       ELSE LET entries == LoadEntries(dbFile)
                entry == entries[IndexOfId(entries, episode_id)]
                transcript_path == TranscriptPath(entry.episode_id)
                episode_file == EpisodePath(entry.episode_id)
                with_transcript == UpdateEntry(entries, episode_id, "transcripts_file", transcript_path)
                with_episode == UpdateEntry(with_transcript, episode_id, "episodes_file", episode_file)
            IN IF ~(transcribed /\ TranscriptAvailable(entry.platform))
               THEN LET failed == RecordError(entries, episode_id, TranscriptError, interrupted # 1)
                    IN /\ stateFile' = SavedState(episode_id, "error", TranscriptError)
                       /\ dbFile' = failed.db
                       /\ UNCHANGED files
               ELSE IF interrupted = 1
               THEN /\ stateFile' = SavedState(episode_id, "processing", "")
                    /\ dbFile' = Save(with_transcript, FALSE)
                    /\ files' = files \cup {transcript_path}
               ELSE IF ~rendered
               THEN LET failed == RecordError(with_transcript, episode_id, MarkdownError, interrupted # 2)
                    IN /\ stateFile' = SavedState(episode_id, "error", MarkdownError)
                       /\ dbFile' = failed.db
                       /\ files' = files \cup {transcript_path}
               ELSE IF interrupted = 2
               THEN /\ stateFile' = SavedState(episode_id, "processing", "")
                    /\ dbFile' = Save(with_episode, FALSE)
                    /\ files' = files \cup {transcript_path, episode_file}
               ELSE /\ stateFile' = SavedState(episode_id, "complete", "")
                    /\ dbFile' = Save(with_episode, TRUE)
                    /\ files' = files \cup {transcript_path, episode_file}

\* a cleanup loop that deletes nothing
UnlinkedNothing(entry, on_disk, failing) == {}

\* the loop of cmd_cleanup_episode over [episodes_file, claims_file,
\* transcripts_file]: the paths it unlinks when unlink is refused at the
\* failing-th path of the list (0: never)
Unlinked(entry, on_disk, failing) ==
    LET paths == <<entry.episodes_file, entry.claims_file, entry.transcripts_file>>
    IN {paths[i] : i \in {j \in 1..3 : /\ paths[j] # NoPath
                                       /\ paths[j] \in on_disk
                                       /\ (failing = 0 \/ j < failing)}}

\* whether that loop reaches a refused unlink
UnlinkFails(entry, on_disk, failing) ==
    LET paths == <<entry.episodes_file, entry.claims_file, entry.transcripts_file>>
    IN failing # 0 /\ paths[failing] # NoPath /\ paths[failing] \in on_disk

\* cmd_cleanup_episode(episode_id).  The closing IDGenerator().reset_cache()
\* acts on a generator object that is dropped at once, so it changes no
\* variable.
cmd_cleanup_episode(episode_id, failing, saved) ==
    /\ UNCHANGED <<stateFile, id_cache, issued, returned, mainVars, fnVars, invocations>>
    /\ IF LoadFails(dbFile)
       THEN UNCHANGED <<dbFile, files>>
       ELSE IF IndexOfId(LoadEntries(dbFile), episode_id) = 0
       THEN UNCHANGED <<dbFile, files>>       \* "No episode found with ID"
       ELSE LET entries == LoadEntries(dbFile)
                entry == entries[IndexOfId(entries, episode_id)]
            IN /\ files' = files \ Unlinked(entry, files, failing)
               /\ IF UnlinkFails(entry, files, failing)
                  THEN UNCHANGED dbFile
                  ELSE dbFile' = Save(RemoveEntry(entries, entry), saved)

\* IDGenerator(): the cache a newly built generator holds, read from the file
FreshCache(file) == LoadCacheFrom(LoadEntries(file), EmptyCache)

\* the counter a fresh generator would hand out for the metadata of url
CounterFor(url) ==
    NextCount(FreshCache(dbFile),
              GroupKey(MetadataOf(url).podcast_name, MetadataOf(url).interviewee.name))

\* what a fetch for url can return: the metadata, or the metadata without a
\* usable published_at
Fetched(url) == {MetadataOf(url), [MetadataOf(url) EXCEPT !.published_at = NoDate]}

AddPodcast ==
    \E url \in URLs :
        /\ IndexOfUrl(LoadEntries(dbFile), url) = 0 => CounterFor(url) <= MaxStoreCount
        /\ \E answer \in {"y", "n"}, fetched \in BOOLEAN :
              \E metadata \in IF fetched THEN Fetched(url) ELSE {MetadataOf(url)} :
                  \E saved \in IF fetched /\ metadata.published_at # NoDate THEN BOOLEAN ELSE {TRUE} :
                      cmd_add_podcast(url, PlatformOf(url), answer, fetched, metadata, saved)

\* the IDs a command can be given: those in the database and one that is not
KnownIds == {LoadEntries(dbFile)[i].episode_id : i \in DOMAIN LoadEntries(dbFile)} \cup {UnknownId}

ProcessPodcast ==
    \E episode_id \in KnownIds, transcribed \in BOOLEAN :
        \E rendered \in IF transcribed THEN BOOLEAN ELSE {TRUE} :
            \E interrupted \in IF transcribed THEN 0..2 ELSE 0..1 :
                cmd_process_podcast(episode_id, transcribed, rendered, interrupted)

CleanupPodcast ==
    \E episode_id \in KnownIds, failing \in 0..3 :
        \E saved \in IF failing = 0 THEN BOOLEAN ELSE {TRUE} :
            cmd_cleanup_episode(episode_id, failing, saved)

Next == AddPodcast \/ ProcessPodcast \/ CleanupPodcast

Spec == Init /\ [][Next]_vars

\* ------------------------------------------------- the store used directly
\* PodcastList(...).add_entry(url, platform, metadata, existing_id) on a
\* freshly loaded store
add_entry(url, platform, metadata, existing_id, saved) ==
    /\ ~LoadFails(dbFile)
    /\ metadata.published_at # NoDate
    /\ dbFile' = Save(AddEntry(LoadEntries(dbFile), dbFile, url, platform, metadata, existing_id, Now), saved)
    /\ UNCHANGED <<stateFile, files, id_cache, issued, returned, mainVars, fnVars, invocations>>

StoreAddEntry ==
    \E url \in URLs, existing_id \in KnownIds \cup {NoId}, saved \in BOOLEAN :
        /\ Len(LoadEntries(dbFile)) < MaxEntries
        /\ existing_id # UnknownId
        /\ existing_id = NoId => CounterFor(url) <= MaxDirectCount
        /\ add_entry(url, PlatformOf(url), MetadataOf(url), existing_id, saved)

NextStore == StoreAddEntry

SpecStore == Init /\ [][NextStore]_vars

\* -------------------------------------------- update_entry used directly
\* a path some caller passes for a file field
SomePath == [dir |-> "Transcripts", name |-> <<"t">>]

\* the keyword arguments update_entry is called with; "rating" is no
\* attribute of an entry
UpdateArgs ==
    {[status |-> "complete"],
     [transcripts_file |-> SomePath, rating |-> SomePath],
     [rating |-> SomePath]}

\* the clock readings of the calls
Times == {Now, Now + 1}

\* what a direct call gave back
Raised(error) == <<"raised", error>>
Returned(value) == <<"returned", value>>

\* PodcastList(...).update_entry(episode_id, **kwargs) on a freshly loaded
\* store
update_entry(episode_id, kwargs, current_time, saved) ==
    /\ ~LoadFails(dbFile)
    /\ IF IndexOfId(LoadEntries(dbFile), episode_id) = 0
       THEN /\ output' = Raised("ValueError")      \* "No entry found with episode_id"
            /\ UNCHANGED dbFile
       ELSE /\ output' = Returned("None")
            /\ dbFile' = Save(UpdateFields(LoadEntries(dbFile), episode_id, kwargs, current_time), saved)
    /\ UNCHANGED <<stateFile, files, id_cache, issued, returned, mainVars, input, invocations>>

UpdateAddEntry ==
    \E url \in URLs :
        /\ Len(LoadEntries(dbFile)) < MaxUpdated
        /\ add_entry(url, PlatformOf(url), MetadataOf(url), NoId, TRUE)

StoreUpdateEntry ==
    \E episode_id \in KnownIds, kwargs \in UpdateArgs, current_time \in Times, saved \in BOOLEAN :
        update_entry(episode_id, kwargs, current_time, saved)

NextUpdate == UpdateAddEntry \/ StoreUpdateEntry

SpecUpdate == Init /\ [][NextUpdate]_vars

\* ------------------------------------- the earlier store, podcast_list.py
\* the attributes of its PodcastEntry
LegacyEntryFields == {"url", "platform", "podcast_name", "interviewee", "episode_id", "date",
                      "status", "episodes_file", "claims_file", "transcripts_file"}

\* what its add_entry reads from the metadata: air_date instead of published_at
LegacyMetadataOf(url) ==
    [air_date |-> MetadataOf(url).published_at,
     podcast_name |-> MetadataOf(url).podcast_name,
     interviewee |-> MetadataOf(url).interviewee]

\* id_generator.py, IDGenerator._load_id_cache: one count per record of
\* podcast_data.json that has a podcast_name and an interviewee
RECURSIVE LegacyLoadIdCache(_, _)
LegacyLoadIdCache(episodes, cache) ==
    IF episodes = <<>> THEN cache
    ELSE LET episode == Head(episodes)
         IN IF "podcast_name" \in DOMAIN episode /\ "interviewee" \in DOMAIN episode
            THEN LET key == GroupKey(episode.podcast_name, episode.interviewee.name)
                 IN LegacyLoadIdCache(Tail(episodes), CachePut(cache, key, CacheGet(cache, key) + 1))
            ELSE LegacyLoadIdCache(Tail(episodes), cache)

\* PodcastEntry.is_complete
IsComplete(entry) ==
    /\ entry.episodes_file # NoPath
    /\ entry.claims_file # NoPath
    /\ entry.transcripts_file # NoPath

\* podcast_list.py, PodcastList.add_entry past the url check: the list after
\* the append; its IDGenerator() reads podcast_data.json
LegacyAddEntry(entries, episodes, url, platform, metadata) ==
    LET key == GroupKey(metadata.podcast_name, metadata.interviewee.name)
        count == NextCount(LegacyLoadIdCache(episodes, EmptyCache), key)
    IN Append(entries,
              [url |-> url,
               platform |-> platform,
               podcast_name |-> metadata.podcast_name,
               interviewee |-> metadata.interviewee,
               episode_id |-> BaseId(metadata.air_date, metadata.podcast_name,
                                     metadata.interviewee.name, platform, count),
               date |-> metadata.air_date,
               status |-> "pending",
               episodes_file |-> NoPath,
               claims_file |-> NoPath,
               transcripts_file |-> NoPath])

\* podcast_list.py, PodcastList.update_entry on an episode_id that is
\* present: setattr for the names that are attributes, then the status is set
\* to complete if all three files are present
LegacyUpdateFields(entries, episode_id, kwargs) ==
    LET i == IndexOfId(entries, episode_id)
        entry == [f \in DOMAIN entries[i] |->
                     IF f \in DOMAIN kwargs /\ f \in LegacyEntryFields
                     THEN kwargs[f] ELSE entries[i][f]]
    IN [entries EXCEPT ![i] = IF IsComplete(entry)
                              THEN [entry EXCEPT !.status = "complete"]
                              ELSE entry]

\* podcast_list.py: PodcastList(...).add_entry(url, platform, metadata)
legacy_add_entry(url, platform, metadata, saved) ==
    /\ ~LoadFails(dbFile)
    /\ IF IndexOfUrl(LoadEntries(dbFile), url) # 0
       THEN /\ output' = Raised("ValueError")      \* "URL already exists"
            /\ UNCHANGED dbFile
       ELSE /\ output' = Returned("entry")
            /\ dbFile' = Save(LegacyAddEntry(LoadEntries(dbFile), database, url, platform, metadata), saved)
    /\ UNCHANGED <<stateFile, files, id_cache, issued, returned, mainVars, input, invocations>>

\* podcast_list.py: PodcastList(...).update_entry(episode_id, **kwargs)
legacy_update_entry(episode_id, kwargs, saved) ==
    /\ ~LoadFails(dbFile)
    /\ IF IndexOfId(LoadEntries(dbFile), episode_id) = 0
       THEN /\ output' = Returned("None")
            /\ UNCHANGED dbFile
       ELSE /\ output' = Returned("entry")
            /\ dbFile' = Save(LegacyUpdateFields(LoadEntries(dbFile), episode_id, kwargs), saved)
    /\ UNCHANGED <<stateFile, files, id_cache, issued, returned, mainVars, input, invocations>>

\* the keyword arguments the earlier update_entry is called with
LegacyUpdateArgs ==
    {[status |-> "complete"],
     [episodes_file |-> SomePath],
     [claims_file |-> SomePath],
     [transcripts_file |-> SomePath, rating |-> SomePath]}

LegacyAdd ==
    \E url \in URLs, saved \in BOOLEAN :
        /\ Len(LoadEntries(dbFile)) < MaxUpdated
        /\ legacy_add_entry(url, PlatformOf(url), LegacyMetadataOf(url), saved)

LegacyUpdate ==
    \E episode_id \in KnownIds, kwargs \in LegacyUpdateArgs, saved \in BOOLEAN :
        legacy_update_entry(episode_id, kwargs, saved)

NextLegacy == LegacyAdd \/ LegacyUpdate

SpecLegacy == Init /\ [][NextLegacy]_vars

\* ------------------------------ main.py: the platform-scoped state tracker
\* Config.YOUTUBE_STATE and Config.VIMEO_STATE: one state file per platform
YOUTUBE_STATE == "youtube"
VIMEO_STATE == "vimeo"

\* platform_type=None
NoPlatform == "none"

\* os.path.exists(state_file)
StateExists(state_file) == trackerFiles[state_file].exists

\* a get_state_file that does not look for an existing file
get_state_file_undetected(platform_type) ==
    IF platform_type = "vimeo" THEN VIMEO_STATE ELSE YOUTUBE_STATE

\* get_state_file(platform_type)
get_state_file(platform_type) ==
    IF platform_type = "youtube" THEN YOUTUBE_STATE
    ELSE IF platform_type = "vimeo" THEN VIMEO_STATE
    ELSE IF StateExists(YOUTUBE_STATE) THEN YOUTUBE_STATE
    ELSE IF StateExists(VIMEO_STATE) THEN VIMEO_STATE
    ELSE YOUTUBE_STATE

\* get_state(platform_type)
get_state(platform_type) ==
    IF StateExists(get_state_file(platform_type))
    THEN trackerFiles[get_state_file(platform_type)].state
    ELSE EmptyState

\* save_state(platform_type, episode_id, transcript_file, metadata): the state
\* it writes, the file's old state with the arguments that are given laid
\* over it
SaveState(platform_type, episode_id, transcript_file, metadata) ==
    LET state == get_state(platform_type)
    IN [episode_id |-> IF episode_id # "" THEN episode_id ELSE state.episode_id,
        transcript_file |-> IF transcript_file # "" THEN transcript_file
                            ELSE state.transcript_file,
        metadata |-> IF metadata # NoMetadata THEN metadata ELSE state.metadata]

\* the state files after that save_state call
save_state(platform_type, episode_id, transcript_file, metadata) ==
    [trackerFiles EXCEPT ![get_state_file(platform_type)] =
        [exists |-> TRUE,
         state |-> SaveState(platform_type, episode_id, transcript_file, metadata)]]

\* dict.update and dict.get
Merge(d, e) == [k \in DOMAIN d \cup DOMAIN e |-> IF k \in DOMAIN e THEN e[k] ELSE d[k]]
Get(d, k) == IF k \in DOMAIN d THEN d[k] ELSE ""

\* the index of the first record with the episode_id (0: none)
RECURSIVE IndexOfEpisode(_, _)
IndexOfEpisode(episodes, episode_id) ==
    IF episodes = <<>> THEN 0
    ELSE IF Head(episodes)["episode_id"] = episode_id THEN 1
    ELSE LET rest == IndexOfEpisode(Tail(episodes), episode_id)
         IN IF rest = 0 THEN 0 ELSE rest + 1

\* a save that puts the new metadata in the place of the record it finds
save_to_database_replaces(episodes, metadata) ==
    LET i == IndexOfEpisode(episodes, metadata["episode_id"])
    IN IF i # 0 THEN [episodes EXCEPT ![i] = metadata]
       ELSE Append(episodes, metadata)

\* save_to_database(metadata): the list it writes
save_to_database(episodes, metadata) ==
    LET i == IndexOfEpisode(episodes, metadata["episode_id"])
    IN IF i # 0 THEN [episodes EXCEPT ![i] = Merge(@, metadata)]
       ELSE Append(episodes, metadata)

\* the videos the commands are run on
VimeoIds == {"v1", "v2"}
YoutubeIds == {"y1"}

\* f"{episode_id}_transcript.vtt" under the transcripts directory
VttPath(episode_id) ==
    CASE episode_id = "v1" -> "v1_transcript.vtt"
      [] episode_id = "v2" -> "v2_transcript.vtt"
      [] OTHER -> "y1_transcript.vtt"

\* create_episode_metadata: the EPISODE_SCHEMA keys, with the transcript keys
\* when the player lists a text track; cmd_parse_episode adds platform_type
VimeoMetadata(video_id, tracks) ==
    Merge([episode_id |-> video_id, title |-> "title", transcript_file |-> "",
           platform_type |-> "vimeo"],
          IF tracks THEN [transcript_info |-> "texttrack"] ELSE NoMetadata)

\* fetch_youtube.py, YouTubeFetcher.get_video_data: the template keys, with
\* transcript_file set when a transcript was saved
YoutubeMetadata(video_id, transcript) ==
    [episode_id |-> video_id, title |-> "title", platform_type |-> "youtube",
     transcript_file |-> IF transcript THEN VttPath(video_id) ELSE ""]

\* cmd_parse_episode.  fetched: whether the page fetch returned
cmd_parse_episode(video_id, fetched, tracks) ==
    /\ IF ~fetched
       THEN UNCHANGED mainVars                       \* print(f"Error: {e}")
       ELSE LET metadata == VimeoMetadata(video_id, tracks)
            IN /\ trackerFiles' = save_state("vimeo", video_id, "", metadata)
               /\ lastSaved' = [exists |-> TRUE, state |-> SaveState("vimeo", video_id, "", metadata)]
               /\ database' = save_to_database(database, metadata)
    /\ UNCHANGED <<dbFile, stateFile, files, id_cache, issued, returned, fnVars, invocations>>

\* cmd_parse_youtube.  fetched: whether get_video_data returned
cmd_parse_youtube(video_id, fetched, transcript) ==
    /\ IF ~fetched
       THEN UNCHANGED mainVars
       ELSE LET metadata == YoutubeMetadata(video_id, transcript)
            IN /\ trackerFiles' = save_state("youtube", video_id, "", metadata)
               /\ lastSaved' = [exists |-> TRUE, state |-> SaveState("youtube", video_id, "", metadata)]
               /\ database' = save_to_database(database, metadata)
    /\ UNCHANGED <<dbFile, stateFile, files, id_cache, issued, returned, fnVars, invocations>>

\* cmd_get_transcript.  arg_episode_id: --episode_id ("" when not given);
\* downloaded: whether download_vtt_file returned.  The .vtt file it writes
\* is not part of the state.
cmd_get_transcript(arg_episode_id, downloaded) ==
    LET state == get_state(NoPlatform)
        episode_id == IF arg_episode_id # "" THEN arg_episode_id ELSE state.episode_id
    IN /\ IF \/ episode_id = ""                    \* "No episode_id provided"
             \/ Get(state.metadata, "transcript_info") = ""
             \/ ~downloaded
          THEN UNCHANGED mainVars
          ELSE /\ trackerFiles' = save_state(NoPlatform, "", VttPath(episode_id), NoMetadata)
               /\ lastSaved' = [exists |-> TRUE,
                                state |-> SaveState(NoPlatform, "", VttPath(episode_id), NoMetadata)]
               /\ UNCHANGED database
       /\ UNCHANGED <<dbFile, stateFile, files, id_cache, issued, returned, fnVars, invocations>>

ParseEpisode ==
    \E video_id \in VimeoIds, fetched \in BOOLEAN, tracks \in BOOLEAN :
        cmd_parse_episode(video_id, fetched, tracks)

ParseYoutube ==
    \E video_id \in YoutubeIds, fetched \in BOOLEAN, transcript \in BOOLEAN :
        cmd_parse_youtube(video_id, fetched, transcript)

GetTranscript ==
    \E arg_episode_id \in VimeoIds \cup {""}, downloaded \in BOOLEAN :
        cmd_get_transcript(arg_episode_id, downloaded)

NextTracker == ParseEpisode \/ ParseYoutube \/ GetTranscript

SpecTracker == Init /\ [][NextTracker]_vars

\* ------------------------------------------------ _sanitize_name applied
\* the characters of the names: a capital, a small letter, a space, a tab, an
\* underscore, a character the pattern removes, and the hyphen
Alphabet == {"A", "b", " ", "\t", "_", "!", "-"}

Names == UNION {[1..n -> Alphabet] : n \in 0..MaxLen}

InitSanitize ==
    /\ InitFiles
    /\ input \in Names
    /\ output = <<>>

\* PodcastID(date, podcast_name, ...): the name is sanitized once
Sanitize ==
    /\ output = <<>>
    /\ output' = <<SanitizeName(input)>>
    /\ UNCHANGED <<dbFile, stateFile, files, id_cache, issued, returned, mainVars, input, invocations>>

\* the sanitized name is given to PodcastID again (from_string builds a
\* PodcastID from the segments of an ID)
SanitizeAgain ==
    /\ Len(output) = 1
    /\ output' = Append(output, SanitizeName(output[1]))
    /\ UNCHANGED <<dbFile, stateFile, files, id_cache, issued, returned, mainVars, input, invocations>>

NextSanitize == Sanitize \/ SanitizeAgain

SpecSanitize == InitSanitize /\ [][NextSanitize]_vars

\* ------------------------------------------------ one long-lived generator
GenPodcasts == {DannyJones, <<"D", "j">>}
GenInterviewees == {JackKruse, <<"K">>}
GenDates == {Sep24, Oct01}

\* the counters issued so far for a grouping key
IssuedFor(key) == IF key \in DOMAIN issued THEN issued[key] ELSE <<>>

\* IDGenerator.generate_id on a generator built over an absent database
generate_id(date, podcast_name, interviewee_name, platform) ==
    LET key == GroupKey(podcast_name, interviewee_name)
        count == NextCount(id_cache, key)
        podcast_id == BaseId(date, podcast_name, interviewee_name, platform, count)
    IN /\ id_cache' = CachePut(id_cache, key, count)
       /\ returned' = podcast_id
       /\ issued' = CachePut(issued, key, Append(IssuedFor(key), LastSegment(podcast_id)))
       /\ UNCHANGED <<dbFile, stateFile, files, mainVars, fnVars, invocations>>

GenerateId ==
    \E date \in GenDates, podcast_name \in GenPodcasts,
       interviewee_name \in GenInterviewees, platform \in Platforms :
        /\ CacheGet(id_cache, GroupKey(podcast_name, interviewee_name)) < MaxCount
        /\ generate_id(date, podcast_name, interviewee_name, platform)

NextGen == GenerateId

SpecGen == Init /\ [][NextGen]_vars

\* ------------------------------------------------- PodcastID.from_string
\* \d of the pattern (ASCII part) and the . of the pattern
IsDigit(c) == c \in Range(DigitSeq)
NoNewline(s) == \A i \in DOMAIN s : s[i] # "\n"

\* (\d{2}_\d{2}_\d{2})_ at the start of the string
MatchesDatePrefix(s) ==
    /\ Len(s) >= 9
    /\ \A i \in 1..9 : IF i \in {3, 6, 9} THEN s[i] = "_" ELSE IsDigit(s[i])

\* _(\d{2})$ at the end of the string
MatchesCountSuffix(s) ==
    /\ Len(s) >= 3
    /\ s[Len(s) - 2] = "_"
    /\ IsDigit(s[Len(s) - 1])
    /\ IsDigit(s[Len(s)])

\* (.+?)_(.+?)$ on the rest: the positions of the "_" that can end the first
\* group, both groups non-empty and free of newlines
SplitsInTwo(rest) ==
    {j \in 2..(Len(rest) - 1) :
        /\ rest[j] = "_"
        /\ NoNewline(SubSeq(rest, 1, j - 1))
        /\ NoNewline(SubSeq(rest, j + 1, Len(rest)))}

\* (.+?)_(.+?)_(.+?)$ on the body: the positions of the "_" that can end the
\* first group
SplitsInThree(body) ==
    {i \in 2..(Len(body) - 1) :
        /\ body[i] = "_"
        /\ NoNewline(SubSeq(body, 1, i - 1))
        /\ SplitsInTwo(SubSeq(body, i + 1, Len(body))) # {}}

\* the least element of a non-empty set of positions: a lazy group takes the
\* shortest match
Least(positions) == CHOOSE p \in positions : \A q \in positions : p <= q

\* the days of a month, as datetime checks them
DaysIn(year, month) ==
    IF month = 2
    THEN (IF year % 4 = 0 /\ (year % 100 # 0 \/ year % 400 = 0) THEN 29 ELSE 28)
    ELSE IF month \in {4, 6, 9, 11} THEN 30 ELSE 31

\* datetime.strptime(date_str, "%y_%m_%d"): %y below 69 is a year of 20xx
ParseDate(date_str) ==
    LET yy == ToInt(SubSeq(date_str, 1, 2))
    IN [year |-> IF yy <= 68 THEN 2000 + yy ELSE 1900 + yy,
        month |-> ToInt(SubSeq(date_str, 4, 5)),
        day |-> ToInt(SubSeq(date_str, 7, 8))]

ValidDate(date) ==
    /\ date.month \in 1..12
    /\ date.day \in 1..DaysIn(date.year, date.month)

\* PodcastID.from_string(id_string): what the call gives back, the attributes
\* of the PodcastID or the error raised
from_string(id_string) ==
    LET body == SubSeq(id_string, 10, Len(id_string) - 3)
        i == Least(SplitsInThree(body))
        rest == SubSeq(body, i + 1, Len(body))
        j == Least(SplitsInTwo(rest))
        date == ParseDate(SubSeq(id_string, 1, 8))
    IN IF ~(/\ MatchesDatePrefix(id_string)
            /\ MatchesCountSuffix(id_string)
            /\ SplitsInThree(body) # {})
       THEN Raised("ValueError")                 \* "Invalid ID format"
       ELSE IF ~ValidDate(date)
       THEN Raised("ValueError")                 \* raised by strptime
       ELSE Returned([date |-> date,
                      podcast_name |-> SanitizeName(SubSeq(body, 1, i - 1)),
                      interviewee_name |-> SanitizeName(SubSeq(rest, 1, j - 1)),
                      platform |-> Lower(SubSeq(rest, j + 1, Len(rest))),
                      count |-> ToInt(SubSeq(id_string, Len(id_string) - 1, Len(id_string)))])

\* the components IDs are formatted from
ParseCounts == {1, 9, 10, 99}

Components ==
    [date : GenDates, podcast_name : GenPodcasts, interviewee_name : GenInterviewees,
     platform : Platforms, count : ParseCounts]

\* PodcastID(date, podcast_name, interviewee_name, platform, count): its
\* attributes
PodcastID(c) ==
    [date |-> c.date,
     podcast_name |-> SanitizeName(c.podcast_name),
     interviewee_name |-> SanitizeName(c.interviewee_name),
     platform |-> Lower(<<c.platform>>),
     count |-> c.count]

InitParse ==
    /\ InitFiles
    /\ input \in Components
    /\ output = <<>>

\* PodcastID(...).base_id of the components
FormatId ==
    /\ output = <<>>
    /\ output' = <<BaseId(input.date, input.podcast_name, input.interviewee_name,
                          input.platform, input.count)>>
    /\ UNCHANGED <<dbFile, stateFile, files, id_cache, issued, returned, mainVars, input, invocations>>

\* a caller cuts the ID short: the last digit of the count, or the first
\* digit of the date, is lost
TruncateId ==
    /\ Len(output) = 1
    /\ output[1] = BaseId(input.date, input.podcast_name, input.interviewee_name,
                          input.platform, input.count)
    /\ \E cut \in {SubSeq(output[1], 1, Len(output[1]) - 1), Tail(output[1])} :
           output' = <<cut>>
    /\ UNCHANGED <<dbFile, stateFile, files, id_cache, issued, returned, mainVars, input, invocations>>

\* PodcastID.from_string on the string
ParseId ==
    /\ Len(output) = 1
    /\ output' = Append(output, from_string(output[1]))
    /\ UNCHANGED <<dbFile, stateFile, files, id_cache, issued, returned, mainVars, input, invocations>>

NextParse == FormatId \/ TruncateId \/ ParseId

SpecParse == InitParse /\ [][NextParse]_vars

\* ------------------------------------------ the cache rebuilt from a store
\* what _load_cache reads of a stored entry; an entry as add_entry writes it
\* has all three, with an episode_id that ends in its counter
StoredEntry(podcast_name, count) ==
    [podcast_name |-> podcast_name,
     interviewee |-> [name |-> <<"K">>],
     episode_id |-> BaseId(Sep24, podcast_name, <<"K">>, "vimeo", count)]

WellFormedEntries == {StoredEntry(podcast_name, count) : podcast_name \in GenPodcasts, count \in 1..2}

\* entries of a file edited by hand or written by another tool: one without
\* podcast_name, one without interviewee, one whose episode_id does not end
\* in a number
MalformedEntries ==
    {[interviewee |-> [name |-> <<"K">>], episode_id |-> BaseId(Sep24, <<"D", "j">>, <<"K">>, "vimeo", 1)],
     [podcast_name |-> <<"D", "j">>, episode_id |-> BaseId(Sep24, <<"D", "j">>, <<"K">>, "vimeo", 1)],
     [podcast_name |-> <<"D", "j">>, interviewee |-> [name |-> <<"K">>], episode_id |-> <<"v", "1">>]}

Stores == UNION {[1..n -> WellFormedEntries \cup MalformedEntries] : n \in 0..MaxStored}

\* int(s) accepts a string of digits
IsNumeric(s) == s # <<>> /\ \A i \in DOMAIN s : IsDigit(s[i])

\* the entries _load_cache can read: entry['podcast_name'],
\* entry['interviewee']['name'] and int(entry['episode_id'].split('_')[-1])
\* all evaluate
Readable(entry) ==
    /\ "podcast_name" \in DOMAIN entry
    /\ "interviewee" \in DOMAIN entry
    /\ "episode_id" \in DOMAIN entry
    /\ IsNumeric(LastSegment(entry.episode_id))

\* the exception the loop of _load_cache raises at an entry it cannot read
ErrorAt(entry) ==
    IF /\ "podcast_name" \in DOMAIN entry
       /\ "interviewee" \in DOMAIN entry
       /\ "episode_id" \in DOMAIN entry
    THEN "ValueError" ELSE "KeyError"

\* IDGenerator._load_cache over the entries of a file: the cache, or the
\* exception of the first entry it cannot read (there is no try around the
\* loop)
load_cache(data) ==
    IF \A i \in DOMAIN data : Readable(data[i])
    THEN Returned(LoadCacheFrom(data, EmptyCache))
    ELSE Raised(ErrorAt(data[CHOOSE i \in DOMAIN data :
                                 /\ ~Readable(data[i])
                                 /\ \A j \in 1..(i - 1) : Readable(data[j])]))

InitRebuild ==
    /\ InitFiles
    /\ input \in Stores
    /\ output = <<>>

\* IDGenerator() over a file that holds the entries
Rebuild ==
    /\ output = <<>>
    /\ output' = <<load_cache(input)>>
    /\ UNCHANGED <<dbFile, stateFile, files, id_cache, issued, returned, mainVars, input, invocations>>

NextRebuild == Rebuild

SpecRebuild == InitRebuild /\ [][NextRebuild]_vars

\* ------------------------------------- add-podcast run by two processes
\* The steps of one cmd_add_podcast process between which another process
\* can run: PodcastList() reads the file; add_entry builds IDGenerator(),
\* which reads the file again, and appends the entry in memory; _save opens
\* the file for writing, which truncates it, and json.dump then writes the
\* list.  The operator answers y and the metadata fetch returns.
raceFrame == <<stateFile, files, id_cache, issued, returned, mainVars, fnVars>>

Others(p) == Procs \ {p}

\* cmd_add_podcast up to the metadata fetch: PodcastList(), the url check and
\* entries.remove(existing_entry)
RaceLoad(p, url) ==
    /\ invocations[p].pc = "idle"
    /\ invocations' =
          [invocations EXCEPT ![p] =
              IF LoadFails(dbFile)
              THEN [@ EXCEPT !.pc = "failed", !.url = url]
              ELSE LET entries == LoadEntries(dbFile)
                       found == IndexOfUrl(entries, url)
                   IN [@ EXCEPT !.pc = "loaded",
                                !.url = url,
                                !.existing_id = IF found = 0 THEN NoId ELSE entries[found].episode_id,
                                !.entries = IF found = 0 THEN entries
                                            ELSE RemoveEntry(entries, entries[found])]]
    /\ UNCHANGED <<dbFile, raceFrame>>

\* add_entry up to self.entries.append(entry): IDGenerator() reads the file
\* as it is now
RaceAppend(p) ==
    /\ invocations[p].pc = "loaded"
    /\ invocations' =
          [invocations EXCEPT ![p] =
              IF invocations[p].existing_id = NoId /\ LoadFails(dbFile)
              THEN [@ EXCEPT !.pc = "failed"]
              ELSE LET entries == AddEntry(@.entries, dbFile, @.url, PlatformOf(@.url),
                                           MetadataOf(@.url), @.existing_id, Now)
                   IN [@ EXCEPT !.pc = "appended", !.entries = entries]]
    /\ UNCHANGED <<dbFile, raceFrame>>

\* _save: open(self.file_path, 'w') truncates the file; the process and every
\* process that has the file open for writing now write to the same file
RaceOpen(p) ==
    /\ invocations[p].pc = "appended"
    /\ dbFile' = Save(invocations[p].entries, FALSE)
    /\ invocations' =
          [q \in Procs |->
              IF q = p
              THEN [invocations[q] EXCEPT !.pc = "writing",
                        !.overlapped = \E r \in Others(p) : invocations[r].pc = "writing"]
              ELSE IF invocations[q].pc = "writing"
              THEN [invocations[q] EXCEPT !.overlapped = TRUE]
              ELSE invocations[q]]
    /\ UNCHANGED raceFrame

\* how many processes have closed the file
Closed == Cardinality({q \in Procs : invocations[q].closed # 0})

\* _save: json.dump and the close of the file, then cmd_add_podcast prints
\* the episode_id.  Two processes that had the file open together wrote over
\* each other at their own offsets: the file holds this list, or a mixture
\* that is no JSON document.
RaceClose(p, mixed) ==
    /\ invocations[p].pc = "writing"
    /\ mixed => invocations[p].overlapped
    /\ dbFile' = Save(invocations[p].entries, ~mixed)
    /\ invocations' =
          [invocations EXCEPT ![p] =
              [@ EXCEPT !.pc = "done",
                        !.closed = Closed + 1,
                        !.reported = invocations[p].entries[Len(invocations[p].entries)].episode_id]]
    /\ UNCHANGED raceFrame

NextRace ==
    \/ \E p \in Procs, url \in URLs : RaceLoad(p, url)
    \/ \E p \in Procs : RaceAppend(p)
    \/ \E p \in Procs : RaceOpen(p)
    \/ \E p \in Procs, mixed \in BOOLEAN : RaceClose(p, mixed)

SpecRace == Init /\ [][NextRace]_vars

\* -------------------------------- add-podcast and cleanup-podcast in turn
\* cmd_add_podcast(url, platform) on a url that is not in the list, every
\* step of it succeeding: the entry is appended and saved, and
\* print(f"Episode ID: {entry.episode_id}") shows the ID, kept here with the
\* url it was given to
add_new_podcast(url) ==
    LET entries == AddEntry(LoadEntries(dbFile), dbFile, url, PlatformOf(url),
                            MetadataOf(url), NoId, Now)
    IN /\ ~LoadFails(dbFile)
       /\ IndexOfUrl(LoadEntries(dbFile), url) = 0
       /\ dbFile' = Save(entries, TRUE)
       /\ output' = Append(output, <<url, entries[Len(entries)].episode_id>>)
       /\ UNCHANGED <<stateFile, files, id_cache, issued, returned, mainVars, input, invocations>>

RetireAdd ==
    \E url \in URLs :
        /\ Len(output) < MaxPrinted
        /\ CounterFor(url) <= MaxReissued
        /\ add_new_podcast(url)

RetireCleanup ==
    \E episode_id \in KnownIds : cmd_cleanup_episode(episode_id, 0, TRUE)

NextRetire == RetireAdd \/ RetireCleanup

SpecRetire == Init /\ [][NextRetire]_vars

\* =================================================================== claims
\* the entries of the database file as a fresh PodcastList would load them
Persisted == LoadEntries(dbFile)

\* how many persisted entries carry an episode_id
CountOfId(entries, episode_id) ==
    Cardinality({i \in DOMAIN entries : entries[i].episode_id = episode_id})

\* C1: no two entries of the persisted store have the same episode_id,
\* also when two podcast or interviewee names sanitize to the same segment.
C1_UniqueEpisodeIds ==
    \A i, j \in DOMAIN Persisted :
        i # j => Persisted[i].episode_id # Persisted[j].episode_id

\* C2: the database file is never left empty or half-written: whatever
\* happens during save(), it holds a valid JSON array (or does not exist yet).
C2_SaveIsAtomic == dbFile.kind \in {"absent", "json"}

\* C3: add_entry with a url the store already has and no existing_id fails
\* and leaves the entries and the database file unchanged.
C3_DuplicateUrlRejected ==
    [][\A url \in URLs :
          (/\ IndexOfUrl(Persisted, url) # 0
           /\ add_entry(url, PlatformOf(url), MetadataOf(url), NoId, TRUE))
          => UNCHANGED dbFile]_vars

\* C4: after any sequence of add-podcast (either answer to the prompt),
\* process-podcast and cleanup-podcast, no two persisted entries share a url.
C4_UniqueUrls ==
    \A i, j \in DOMAIN Persisted :
        i # j => Persisted[i].url # Persisted[j].url

\* C4 witness: an entry was overwritten after it had been processed: the
\* first of two entries is pending with empty file fields while the
\* transcript written for its episode_id is still on disk
C4_Witness ==
    /\ Len(Persisted) = 2
    /\ Persisted[1].url = "u1"
    /\ Persisted[1].status = "pending"
    /\ Persisted[1].transcripts_file = NoPath
    /\ TranscriptPath(Persisted[1].episode_id) \in files

\* the entry get_entry returns for an episode_id that is present
EntryOf(entries, episode_id) == entries[IndexOfId(entries, episode_id)]

\* C5: add_entry with existing_id set to the ID of an entry in the store, and
\* the same url, replaces that entry: afterwards exactly one entry has that
\* episode_id, and the cache counter of its grouping key is what it was.
C5_OverwriteReplaces ==
    [][\A url \in URLs :
          LET found == IndexOfUrl(Persisted, url)
              existing_id == Persisted[found].episode_id
              key == GroupKey(Persisted[found].podcast_name, Persisted[found].interviewee.name)
          IN (/\ found # 0
              /\ add_entry(url, PlatformOf(url), MetadataOf(url), existing_id, TRUE))
             => /\ CountOfId(Persisted', existing_id) = 1
                /\ CacheGet(LoadCacheFrom(Persisted', EmptyCache), key)
                     = CacheGet(LoadCacheFrom(Persisted, EmptyCache), key)]_vars

\* C6: when process-podcast runs on a pending entry and the pipeline
\* succeeds, the entry's persisted status is complete and so is the state
\* tracker's.
C6_SuccessMarksComplete ==
    [][\A episode_id \in KnownIds :
          (/\ IndexOfId(Persisted, episode_id) # 0
           /\ EntryOf(Persisted, episode_id).status = "pending"
           /\ TranscriptAvailable(EntryOf(Persisted, episode_id).platform)
           /\ cmd_process_podcast(episode_id, TRUE, TRUE, 0))
          => /\ EntryOf(Persisted', episode_id).status = "complete"
             /\ stateFile'.status = "complete"]_vars

\* C7: when process-podcast is re-run on an entry in status error and the run
\* succeeds, the entry's persisted status is no longer error.
C7_ErrorRecoverable ==
    [][\A episode_id \in KnownIds :
          (/\ IndexOfId(Persisted, episode_id) # 0
           /\ EntryOf(Persisted, episode_id).status = "error"
           /\ TranscriptAvailable(EntryOf(Persisted, episode_id).platform)
           /\ cmd_process_podcast(episode_id, TRUE, TRUE, 0))
          => EntryOf(Persisted', episode_id).status # "error"]_vars

\* a run of process-podcast on a present entry in which the transcript step
\* or the markdown step raises and every write completes
FailedRun(episode_id, transcribed, rendered) ==
    /\ IndexOfId(Persisted, episode_id) # 0
    /\ ~(transcribed /\ TranscriptAvailable(EntryOf(Persisted, episode_id).platform) /\ rendered)
    /\ cmd_process_podcast(episode_id, transcribed, rendered, 0)

\* the message of the step that raises in such a run
FailureOf(episode_id, transcribed) ==
    IF transcribed /\ TranscriptAvailable(EntryOf(Persisted, episode_id).platform)
    THEN MarkdownError ELSE TranscriptError

Example01 ==
    <<"2", "4", "_", "0", "9", "_", "2", "4", "_", "d", "a", "n", "n", "y", "_",
      "j", "o", "n", "e", "s", "_", "j", "a", "c", "k", "_", "k", "r", "u", "s", "e",
      "_", "youtube", "_", "0", "1">>
Example02 == SubSeq(Example01, 1, Len(Example01) - 1) \o <<"2">>

\* C9: on one generator the IDs returned for one grouping key carry the
\* counters 01, 02, 03, ... with no gap, whatever calls for other keys come
\* in between; the example inputs give ..._youtube_01, then ..._youtube_02.
C9_GaplessCounters ==
    /\ [](\A key \in DOMAIN issued :
            \A n \in DOMAIN issued[key] :
                /\ Len(issued[key][n]) = 2
                /\ ToInt(issued[key][n]) = n)
    /\ [][generate_id(Sep24, DannyJones, JackKruse, "youtube")
          => /\ IssuedFor(GroupKey(DannyJones, JackKruse)) = <<>> => returned' = Example01
             /\ Len(IssuedFor(GroupKey(DannyJones, JackKruse))) = 1 => returned' = Example02]_vars

\* C9 witness: the second example ID was just returned while another key has
\* been given three counters
C9_Witness ==
    /\ returned = Example02
    /\ \E key \in DOMAIN issued :
          /\ key # GroupKey(DannyJones, JackKruse)
          /\ Len(issued[key]) >= 3

\* C10: every non-empty episodes_file / claims_file / transcripts_file of a
\* persisted entry names a file that exists on disk.
C10_ArtifactsExist ==
    \A i \in DOMAIN Persisted :
        \A path \in {Persisted[i].episodes_file, Persisted[i].claims_file,
                     Persisted[i].transcripts_file} :
            path # NoPath => path \in files

\* the file paths an entry names
PathsOf(entry) == {entry.episodes_file, entry.claims_file, entry.transcripts_file} \ {NoPath}

\* C11: cleanup-podcast on an entry whose file fields name existing files
\* deletes those files and removes the entry from the persisted database,
\* leaving every other entry as it was.
C11_CleanupRemoves ==
    [][\A episode_id \in KnownIds :
          LET entry == EntryOf(Persisted, episode_id)
          IN (/\ IndexOfId(Persisted, episode_id) # 0
              /\ PathsOf(entry) # {}
              /\ PathsOf(entry) \subseteq files
              /\ cmd_cleanup_episode(episode_id, 0, TRUE))
             => /\ PathsOf(entry) \cap files' = {}
                /\ dbFile'.kind = "json"
                /\ \A i \in DOMAIN Persisted' : Persisted'[i] # entry
                /\ Persisted' = SelectSeq(Persisted, LAMBDA e : e # entry)]_vars

\* C11 witness: a processed episode was cleaned up: its files and its entry
\* are gone, the entry of another url is still there, untouched
C11_Witness ==
    /\ stateFile.status = "complete"
    /\ files = {}
    /\ dbFile.kind = "json"
    /\ Len(Persisted) = 1
    /\ Persisted[1].url = "u2"
    /\ Persisted[1].status = "pending"
    /\ PathsOf(Persisted[1]) = {}

\* C12: after cleanup-podcast the ID cache consulted by the next ID
\* generation holds no counter at all, also for grouping keys that still
\* have entries in the store.
C12_CleanupClearsCache ==
    [][\A episode_id \in KnownIds :
          (/\ IndexOfId(Persisted, episode_id) # 0
           /\ cmd_cleanup_episode(episode_id, 0, TRUE))
          => FreshCache(dbFile') = EmptyCache]_vars

\* C13: right after add_entry returns entry e, get_entry(e.episode_id)
\* returns an entry equal to e in all fields, and so does a fresh store loaded
\* from the persisted file.
C13_RoundTrip ==
    [][\A url \in URLs, existing_id \in KnownIds \cup {NoId} :
          add_entry(url, PlatformOf(url), MetadataOf(url), existing_id, TRUE)
          => LET e == Persisted'[Len(Persisted')]
             IN EntryOf(Persisted', e.episode_id) = e]_vars

\* C14: each save_state call of the entry-store tracker replaces the prior
\* state: whenever a step writes the state file, what the file then holds is
\* the record of one run only, the episode_id of an entry of the database, a
\* status, and an error message exactly when that status is error, so an error
\* recorded by an earlier failed run is gone after the next save_state.
C14_SaveStateReplaces ==
    [][stateFile' # stateFile
       => /\ stateFile'.exists
          /\ IndexOfId(Persisted, stateFile'.episode_id) # 0
          /\ stateFile'.status \in {"processing", "complete", "error"}
          /\ stateFile'.status = "error"
               => /\ stateFile'.error \in {TranscriptError, MarkdownError}
                  /\ stateFile'.error = MarkdownError
                       => TranscriptAvailable(EntryOf(Persisted, stateFile'.episode_id).platform)
          /\ stateFile'.status # "error" => stateFile'.error = ""]_vars

\* C14 witness: a run succeeded on an entry that an earlier run had marked
\* error, and the state file holds no error
C14_Witness ==
    /\ stateFile.status = "complete"
    /\ stateFile.error = ""
    /\ IndexOfId(Persisted, stateFile.episode_id) # 0
    /\ EntryOf(Persisted, stateFile.episode_id).status = "error"

\* C17: loading an absent database file gives an empty store without error
\* (add-podcast then writes a one-entry file), while loading a present file
\* that does not parse fails: no command goes on with an empty store, so
\* nothing is written.
C17_LoadAbsentOrFail ==
    /\ [][\A url \in URLs :
            (/\ dbFile.kind = "absent"
             /\ cmd_add_podcast(url, PlatformOf(url), "y", TRUE, MetadataOf(url), TRUE))
            => /\ dbFile'.kind = "json"
               /\ Len(Persisted') = 1
               /\ Persisted'[1].url = url]_vars
    /\ [][dbFile.kind = "partial" => UNCHANGED <<dbFile, stateFile, files>>]_vars

\* C17 witness: a write of the database was interrupted after a transcript
\* had been written; the file does not parse
C17_Witness ==
    /\ dbFile.kind = "partial"
    /\ files # {}

\* C18: update_entry on an episode_id that is not in the store fails with an
\* error and leaves the database file unchanged; on a present ID it changes
\* only the named known fields of that one entry, ignores unknown names and
\* persists the full store.  Stated of the update_entry of podcast_list.py,
\* whose entries have no updated_at.
C18_UpdateEntry ==
    [][\A episode_id \in KnownIds, kwargs \in LegacyUpdateArgs :
          legacy_update_entry(episode_id, kwargs, TRUE)
          => IF IndexOfId(Persisted, episode_id) = 0
             THEN /\ output'[1] = "raised"
                  /\ UNCHANGED dbFile
             ELSE LET i == IndexOfId(Persisted, episode_id)
                  IN /\ dbFile'.kind = "json"
                     /\ Len(Persisted') = Len(Persisted)
                     /\ \A j \in DOMAIN Persisted : j # i => Persisted'[j] = Persisted[j]
                     /\ DOMAIN Persisted'[i] = DOMAIN Persisted[i]
                     /\ \A f \in DOMAIN Persisted[i] :
                            Persisted'[i][f] = IF f \in DOMAIN kwargs THEN kwargs[f]
                                               ELSE Persisted[i][f]]_vars

\* C18, of the update_entry of lib/models/podcast.py: the same, with
\* updated_at set to the time of the call.
C18_LibUpdateEntry ==
    [][\A episode_id \in KnownIds, kwargs \in UpdateArgs, current_time \in Times :
          update_entry(episode_id, kwargs, current_time, TRUE)
          => IF IndexOfId(Persisted, episode_id) = 0
             THEN /\ output'[1] = "raised"
                  /\ UNCHANGED dbFile
             ELSE LET i == IndexOfId(Persisted, episode_id)
                  IN /\ dbFile'.kind = "json"
                     /\ Len(Persisted') = Len(Persisted)
                     /\ \A j \in DOMAIN Persisted : j # i => Persisted'[j] = Persisted[j]
                     /\ DOMAIN Persisted'[i] = DOMAIN Persisted[i]
                     /\ \A f \in DOMAIN Persisted[i] :
                            Persisted'[i][f] = IF f = "updated_at" THEN current_time
                                               ELSE IF f \in DOMAIN kwargs THEN kwargs[f]
                                               ELSE Persisted[i][f]]_vars

\* C19: an entry whose status is complete has non-empty episodes_file,
\* claims_file and transcripts_file, whatever update_entry calls were made.
C19_CompleteHasFiles ==
    \A i \in DOMAIN Persisted :
        Persisted[i].status = "complete" => IsComplete(Persisted[i])

\* C15: the platform-scoped tracker uses the youtube file for platform
\* youtube and the vimeo file for platform vimeo; with no platform, the
\* platform file that exists, and the youtube file when neither exists.
C15_StateFileByPlatform ==
    /\ get_state_file("youtube") = YOUTUBE_STATE
    /\ get_state_file("vimeo") = VIMEO_STATE
    /\ (trackerFiles.youtube.exists /\ ~trackerFiles.vimeo.exists)
         => get_state_file(NoPlatform) = YOUTUBE_STATE
    /\ (trackerFiles.vimeo.exists /\ ~trackerFiles.youtube.exists)
         => get_state_file(NoPlatform) = VIMEO_STATE
    /\ (~trackerFiles.youtube.exists /\ ~trackerFiles.vimeo.exists)
         => get_state_file(NoPlatform) = YOUTUBE_STATE

\* C15 witness: only the vimeo file exists and get-transcript, which gives
\* no platform, has written its transcript_file into it
C15_Witness ==
    /\ trackerFiles.vimeo.exists
    /\ ~trackerFiles.youtube.exists
    /\ trackerFiles.vimeo.state.transcript_file = VttPath("v1")
    /\ trackerFiles.vimeo.state.episode_id = "v1"

\* C16: get_state() without a platform returns the state the most recent
\* save_state call wrote, whatever platform that call was for.
C16_ResumesLastTouched ==
    lastSaved.exists => get_state(NoPlatform) = lastSaved.state

\* C20: sanitize is idempotent: sanitizing a sanitized name gives the same
\* name again.
C20_SanitizeIdempotent ==
    Len(output) = 2 => output[2] = output[1]

\* C20 witness: a name with a capital, a space and an underscore was
\* sanitized twice
C20_Witness ==
    /\ input = <<"A", " ", "_">>
    /\ output = << <<"a", "_">>, <<"a", "_">> >>

\* the ID formatted from the components the run started with
FormattedId ==
    BaseId(input.date, input.podcast_name, input.interviewee_name, input.platform, input.count)

\* C21: parse is the inverse of formatting: from_string of an ID formatted
\* from (date, podcast, interviewee, platform, count), count in 1..99, gives
\* back the sanitized podcast, the sanitized interviewee, the platform, the
\* count and the date, also for names whose sanitized form has underscores;
\* a string that does not fit the pattern fails with a format error.
C21_ParseInvertsFormat ==
    Len(output) = 2
    => IF output[1] = FormattedId
       THEN output[2] = Returned(PodcastID(input))
       ELSE output[2] = Raised("ValueError")

\* the same for components whose sanitized names hold no underscore
C21_ParseInvertsPlainNames ==
    (/\ Len(output) = 2
     /\ "_" \notin Range(SanitizeName(input.podcast_name))
     /\ "_" \notin Range(SanitizeName(input.interviewee_name)))
    => IF output[1] = FormattedId
       THEN output[2] = Returned(PodcastID(input))
       ELSE output[2] = Raised("ValueError")

\* the grouping key of a stored entry
KeyOf(entry) == GroupKey(entry.podcast_name, entry.interviewee.name)

\* C22: a generator constructed over an existing store holds, for each
\* grouping key, the maximum counter among the stored entries' IDs of that
\* key, so the next counter it issues for a key is strictly greater than the
\* counter of every stored entry with that key.  Here for the generator that
\* add_entry of podcast_list.py constructs.
C22_NextCounterAboveStored ==
    \A i \in DOMAIN Persisted :
        NextCount(LegacyLoadIdCache(database, EmptyCache), KeyOf(Persisted[i]))
            > StoredCount(Persisted[i].episode_id)

\* the same for the generator of lib/generators/id.py over podcasts.json: its
\* cache holds exactly the keys of the stored entries, each with the maximum
\* stored counter
C22_LibCacheHoldsMax ==
    /\ DOMAIN FreshCache(dbFile) = {KeyOf(Persisted[i]) : i \in DOMAIN Persisted}
    /\ \A i \in DOMAIN Persisted :
          /\ FreshCache(dbFile)[KeyOf(Persisted[i])] >= StoredCount(Persisted[i].episode_id)
          /\ NextCount(FreshCache(dbFile), KeyOf(Persisted[i])) > StoredCount(Persisted[i].episode_id)
    /\ \A key \in DOMAIN FreshCache(dbFile) :
          \E i \in DOMAIN Persisted :
              /\ KeyOf(Persisted[i]) = key
              /\ StoredCount(Persisted[i].episode_id) = FreshCache(dbFile)[key]

\* C23: every counter increment of generate_id is persisted before
\* generate_id returns: whenever the process stops after an ID was issued, a
\* generator built afterwards sees, for each grouping key, a counter no lower
\* than the one the generator that issued the IDs holds.
C23_IncrementPersisted ==
    \A key \in DOMAIN id_cache : CacheGet(FreshCache(dbFile), key) >= id_cache[key]

\* C24: rebuilding the ID cache from a store that holds a malformed entry
\* (no podcast_name, no interviewee, or no numeric trailing ID segment) skips
\* that entry and succeeds, the counters of the well-formed entries intact.
C24_MalformedSkipped ==
    Len(output) = 1
    => output[1] = Returned(LoadCacheFrom(SelectSeq(input, Readable), EmptyCache))

\* the same for stores without a malformed entry
C24_WellFormedRebuilt ==
    (Len(output) = 1 /\ \A i \in DOMAIN input : input[i] \in WellFormedEntries)
    => output[1] = Returned(LoadCacheFrom(input, EmptyCache))

\* the processes that wrote the file, and the one that closed it last
Writers == {p \in Procs : invocations[p].closed # 0}
LastWriter == CHOOSE p \in Writers : \A q \in Writers : invocations[q].closed <= invocations[p].closed
AllEnded == \A p \in Procs : invocations[p].pc \in {"done", "failed"}

\* C25: when two invocations run their load-mutate-save cycles side by side
\* on one database file, the result is last-writer-wins: once both have
\* ended, the file equals the in-memory list of the invocation that saved
\* last.
C25_LastWriterWins ==
    (AllEnded /\ Writers # {})
    => dbFile = Save(invocations[LastWriter].entries, TRUE)

\* the same when no two invocations had the file open for writing together
C25_LastWriterWinsApart ==
    (AllEnded /\ Writers # {} /\ \A p \in Procs : ~invocations[p].overlapped)
    => dbFile = Save(invocations[LastWriter].entries, TRUE)

\* both invocations added an entry and the file lacks the entry of one
C25_EntryLost ==
    /\ \A p \in Procs : invocations[p].pc = "done" /\ invocations[p].existing_id = NoId
    /\ invocations[1].url # invocations[2].url
    /\ dbFile.kind = "json"
    /\ \E p \in Procs : IndexOfUrl(Persisted, invocations[p].url) = 0

\* both invocations reported the same newly generated episode_id
C25_SameIdReported ==
    /\ \A p \in Procs : invocations[p].pc = "done" /\ invocations[p].existing_id = NoId
    /\ invocations[1].url # invocations[2].url
    /\ invocations[1].reported = invocations[2].reported

\* C26: the platform-scoped state is overwritten on every transition: when
\* save_state records a new episode_id in a state file, no transcript_file
\* and no metadata written for the previous episode remains in that file.
C26_StateOverwritten ==
    [][\A state_file \in {YOUTUBE_STATE, VIMEO_STATE} :
          (/\ trackerFiles[state_file].exists
           /\ trackerFiles'[state_file].exists
           /\ trackerFiles'[state_file].state.episode_id # trackerFiles[state_file].state.episode_id)
          => /\ trackerFiles[state_file].state.transcript_file # ""
                  => trackerFiles'[state_file].state.transcript_file
                         # trackerFiles[state_file].state.transcript_file
             /\ trackerFiles[state_file].state.metadata # NoMetadata
                  => trackerFiles'[state_file].state.metadata
                         # trackerFiles[state_file].state.metadata]_vars

\* C27: in add-podcast, when the url exists, the operator confirms the
\* overwrite and the metadata fetch or add_entry then fails (add_entry raises
\* on the date, or its _save does not complete), the database file is
\* unchanged and still holds the original entry.
C27_FailedOverwriteKeepsEntry ==
    [][\A url \in URLs, fetched \in BOOLEAN, saved \in BOOLEAN :
          \A metadata \in Fetched(url) :
              (/\ IndexOfUrl(Persisted, url) # 0
               /\ ~fetched \/ metadata.published_at = NoDate \/ ~saved
               /\ cmd_add_podcast(url, PlatformOf(url), "y", fetched, metadata, saved))
              => /\ dbFile' = dbFile
                 /\ IndexOfUrl(Persisted', url) # 0]_vars

\* the same for the failures that come before the _save call of add_entry
C27_FailureBeforeSaveKeepsEntry ==
    [][\A url \in URLs, fetched \in BOOLEAN :
          \A metadata \in Fetched(url) :
              (/\ IndexOfUrl(Persisted, url) # 0
               /\ ~fetched \/ metadata.published_at = NoDate
               /\ cmd_add_podcast(url, PlatformOf(url), "y", fetched, metadata, TRUE))
              => /\ dbFile' = dbFile
                 /\ IndexOfUrl(Persisted', url) # 0]_vars

\* the counters of the entries of a grouping key, and the highest of them
\* (0 when the key has no entry)
CountersOf(entries, key) ==
    {StoredCount(entries[i].episode_id) : i \in {j \in DOMAIN entries : KeyOf(entries[j]) = key}}
HighestOf(entries, key) ==
    IF CountersOf(entries, key) = {} THEN 0
    ELSE CHOOSE c \in CountersOf(entries, key) : \A d \in CountersOf(entries, key) : d <= c

\* a completed cleanup-podcast of episode_id that removes the entry which
\* holds the highest counter of its grouping key
CleanedHighest(episode_id) ==
    /\ IndexOfId(Persisted, episode_id) # 0
    /\ StoredCount(episode_id) = HighestOf(Persisted, KeyOf(EntryOf(Persisted, episode_id)))
    /\ cmd_cleanup_episode(episode_id, 0, TRUE)

MarkdownFailedRun(episode_id) ==
    /\ IndexOfId(Persisted, episode_id) # 0
    /\ TranscriptAvailable(EntryOf(Persisted, episode_id).platform)
    /\ cmd_process_podcast(episode_id, TRUE, FALSE, 0)

\* C29: when process-podcast fails in the markdown step after the transcript
\* step succeeded, the persisted entry ends with status error, keeps the
\* transcripts_file set by that run and has its episodes_file unchanged; when
\* the entry is not found, process-podcast fails before it writes anything:
\* the state file and the database are unchanged.
C29_FailureAfterTranscript ==
    [][/\ \A episode_id \in KnownIds \ {UnknownId} :
             MarkdownFailedRun(episode_id)
             => /\ dbFile'.kind = "json"
                /\ EntryOf(Persisted', episode_id).status = "error"
                /\ EntryOf(Persisted', episode_id).transcripts_file = TranscriptPath(episode_id)
                /\ EntryOf(Persisted', episode_id).episodes_file
                      = EntryOf(Persisted, episode_id).episodes_file
       /\ (/\ ~LoadFails(dbFile)
           /\ cmd_process_podcast(UnknownId, TRUE, TRUE, 0))
          => UNCHANGED <<stateFile, dbFile, files>>]_vars

\* C29 witness: the markdown step failed on an entry that an earlier run had
\* completed: the entry has status error and still names both files
C29_Witness ==
    /\ stateFile.status = "error"
    /\ stateFile.error = MarkdownError
    /\ IndexOfId(Persisted, stateFile.episode_id) # 0
    /\ EntryOf(Persisted, stateFile.episode_id).status = "error"
    /\ EntryOf(Persisted, stateFile.episode_id).transcripts_file = TranscriptPath(stateFile.episode_id)
    /\ EntryOf(Persisted, stateFile.episode_id).episodes_file = EpisodePath(stateFile.episode_id)

\* how many records of the database carry an episode_id
RecordsOf(episodes, episode_id) ==
    Cardinality({i \in DOMAIN episodes : episodes[i]["episode_id"] = episode_id})

\* what C30 says of one save_to_database(metadata) call that takes the
\* database from before to after
Upserted(before, after, metadata) ==
    LET episode_id == metadata["episode_id"]
        i == IndexOfEpisode(before, episode_id)
    IN /\ \A j \in DOMAIN after : RecordsOf(after, after[j]["episode_id"]) = 1
       /\ RecordsOf(after, episode_id) = 1
       /\ IF i # 0
          THEN /\ Len(after) = Len(before)
               /\ \A j \in DOMAIN before : j # i => after[j] = before[j]
               /\ DOMAIN after[i] = DOMAIN before[i] \cup DOMAIN metadata
               /\ \A k \in DOMAIN metadata : after[i][k] = metadata[k]
               /\ \A k \in DOMAIN before[i] \ DOMAIN metadata : after[i][k] = before[i][k]
          ELSE /\ Len(after) = Len(before) + 1
               /\ \A j \in DOMAIN before : after[j] = before[j]
               /\ after[Len(after)] = metadata

\* C30: save_to_database is an upsert keyed by episode_id: from an empty
\* database, after every call the database holds exactly one record per
\* episode_id; a call for a known ID merges the new fields into that record
\* in place, keeping its position and the fields the new metadata does not
\* name, a call for a new ID appends, and all other records are unchanged.
C30_UpsertByEpisodeId ==
    [][/\ \A video_id \in VimeoIds, tracks \in BOOLEAN :
             cmd_parse_episode(video_id, TRUE, tracks)
             => Upserted(database, database', VimeoMetadata(video_id, tracks))
       /\ \A video_id \in YoutubeIds, transcript \in BOOLEAN :
             cmd_parse_youtube(video_id, TRUE, transcript)
             => Upserted(database, database', YoutubeMetadata(video_id, transcript))]_vars

\* C30 witness: the record of the first episode, saved again with metadata
\* that names no transcript_info, is still first and still has the
\* transcript_info of the earlier call
C30_Witness ==
    /\ Len(database) >= 2
    /\ trackerFiles[VIMEO_STATE].exists
    /\ database[1]["episode_id"] = trackerFiles[VIMEO_STATE].state.episode_id
    /\ "transcript_info" \in DOMAIN database[1]
    /\ "transcript_info" \notin DOMAIN trackerFiles[VIMEO_STATE].state.metadata

====
